---------------------------- MODULE Spec2Model ----------------------------
(***************************************************************************)
(* Model of map_tool_V1.py (NSW Planning Helper): the overlay indexer, the *)
(* field extractors, the row assembler build_site_dataframe and the        *)
(* Streamlit submission handler that appends rows to session_state.sites_df*)
(*                                                                         *)
(* Python strings are sequences of character codes, so that sorted() is    *)
(* the code-point order and join/strip/f-strings are real concatenations.  *)
(* Python None (for a str | None value) is the one-element sequence <<-1>>,*)
(* which is no string.  Overlay records are functions from the field names *)
(* they carry to strings; a field a record lacks is outside its DOMAIN.    *)
(* Field values are strings (JSON numbers and nulls are not modelled).     *)
(***************************************************************************)
EXTENDS Integers, Sequences, FiniteSets, TLC

VARIABLES
    sites_df,     \* st.session_state.sites_df: the sequence of rows
    lotid,        \* the text of the form field at the last submission
    upstream,     \* what each API call of the last submission answered
    built,        \* outcome of build_site_dataframe in the last submission
    notices,      \* the notices the last run of the handler emitted, in order
    overlays,     \* argument of index_overlays_by_layer
    overlay_idx,  \* the overlay index the extractors read
    parsed,       \* output of every extractor on overlay_idx
    row,          \* the overlay columns of the assembled row
    pc            \* position of the pure-function specifications

vars == <<sites_df, lotid, upstream, built, notices,
          overlays, overlay_idx, parsed, row, pc>>

----------------------------------------------------------------------------
(* Bounds *)

\* longest results sequence of a layer drawn as extractor input
MaxRecs == 2

\* longest sequence of layer blocks drawn as indexer input
MaxBlocks == 3

----------------------------------------------------------------------------
(* Python values *)

None == <<-1>>

\* bool(v) for v a string or None
Truthy(v) == v # None /\ v # <<>>

\* a or b
Or(a, b) == IF Truthy(a) THEN a ELSE b

\* str(v) as an f-string renders it
NoneStr == <<78, 111, 110, 101>>                    \* "None"
PyStr(v) == IF v = None THEN NoneStr ELSE v

\* r.get(k) and r.get(k, d) on a dict
Get(r, k) == IF k \in DOMAIN r THEN r[k] ELSE None
GetDefault(r, k, d) == IF k \in DOMAIN r THEN r[k] ELSE d

\* str.strip(): leading and trailing whitespace removed
IsSpace(c) == c \in {9, 10, 11, 12, 13, 32}

RECURSIVE LStrip(_)
LStrip(s) == IF s # <<>> /\ IsSpace(Head(s)) THEN LStrip(Tail(s)) ELSE s

RECURSIVE RStrip(_)
RStrip(s) ==
    IF s # <<>> /\ IsSpace(s[Len(s)])
    THEN RStrip(SubSeq(s, 1, Len(s) - 1))
    ELSE s

Strip(s) == RStrip(LStrip(s))

\* a < b on str: code-point lexicographic order
RECURSIVE LexLess(_, _)
LexLess(a, b) ==
    IF b = <<>> THEN FALSE
    ELSE IF a = <<>> THEN TRUE
    ELSE IF Head(a) # Head(b) THEN Head(a) < Head(b)
    ELSE LexLess(Tail(a), Tail(b))

\* sorted(S) of a set of strings
RECURSIVE Sorted(_)
Sorted(S) ==
    IF S = {} THEN <<>>
    ELSE LET m == CHOOSE x \in S : \A y \in S \ {x} : LexLess(x, y)
         IN  <<m>> \o Sorted(S \ {m})

\* sorted(list) of a list of strings, repeats kept
RECURSIVE InsertSorted(_, _)
InsertSorted(x, list) ==
    IF list = <<>> THEN <<x>>
    ELSE IF LexLess(x, Head(list)) THEN <<x>> \o list
    ELSE <<Head(list)>> \o InsertSorted(x, Tail(list))

RECURSIVE SortedList(_)
SortedList(list) ==
    IF list = <<>> THEN <<>>
    ELSE InsertSorted(list[Len(list)], SortedList(SubSeq(list, 1, Len(list) - 1)))

\* delim.join(list)
RECURSIVE Join(_, _)
Join(delim, list) ==
    IF list = <<>> THEN <<>>
    ELSE IF Len(list) = 1 THEN list[1]
    ELSE list[1] \o delim \o Join(delim, Tail(list))

\* [p for p in list if p] and filter(None, list)
FilterTruthy(list) == SelectSeq(list, Truthy)

Range(s) == {s[i] : i \in 1..Len(s)}

----------------------------------------------------------------------------
(* String literals of the source *)

Y == <<89>>                                         \* "Y"
N == <<78>>                                         \* "N"
SPACE == <<32>>                                     \* " "
LPAREN == <<40>>                                    \* "("
RPAREN == <<41>>                                    \* ")"
COMMA == <<44, 32>>                                 \* ", "
DEFAULT_UNITS == <<109>>                            \* "m"
SP_DELIM == <<32, 47, 32>>                          \* " / "
ENTRY_DELIM == <<59, 32>>                           \* "; "
BPA_DELIM == <<47, 32>>                             \* "/ "
MERGE_DELIM == <<47, 32>>                           \* "/ "
COMMENCED == <<67, 111, 109, 109, 101, 110, 99, 101, 100, 32>>
                                                    \* "Commenced "
HEIGHT_PREFIX ==
    <<72, 101, 105, 103, 104, 116, 32, 111, 102, 32, 66, 117, 105, 108,
      100, 105, 110, 103, 115, 58, 32>>             \* "Height of Buildings: "
ASS_PREFIX ==
    <<65, 99, 105, 100, 32, 83, 117, 108, 102, 97, 116, 101, 32, 83, 111,
      105, 108, 115, 58, 32>>                       \* "Acid Sulfate Soils: "
GW_PREFIX ==
    <<71, 114, 111, 117, 110, 100, 119, 97, 116, 101, 114, 32, 86, 117,
      108, 110, 101, 114, 97, 98, 105, 108, 105, 116, 121, 58, 32>>
                                                    \* "Groundwater Vulnerability: "
BIO_PREFIX ==
    <<84, 101, 114, 114, 101, 115, 116, 114, 105, 97, 108, 32, 66, 105,
      111, 100, 105, 118, 101, 114, 115, 105, 116, 121, 58, 32>>
                                                    \* "Terrestrial Biodiversity: "

\* layer names the extractors look up
L_ZONING == "Land Zoning Map"
L_REGIONAL == "Regional Plan Boundary"
L_LALC == "Local Aboriginal Land Council"
L_SP == "Special Provisions"
L_HEIGHT == "Height of Buildings Map"
L_ASS == "Acid Sulfate Soils Map"
L_BUSHFIRE == "Bushfire Prone Land (Non-EPI)"
L_GW == "Natural Resource - Groundwater Vulnerability Map"
L_BIO == "Terrestrial Biodiversity Map"
L_HERITAGE == "Heritage Map"
L_CROWN == "Crown Land"

----------------------------------------------------------------------------
(* Overlay indexer *)

\* the KeyError of layer["layerName"]
KeyError == [raised |-> TRUE, error |-> "KeyError", value |-> <<>>]

Returned(v) == [raised |-> FALSE, error |-> "", value |-> v]

\* index_overlays_by_layer keeping the first block of a name
RECURSIVE index_overlays_first_wins(_)
index_overlays_first_wins(ovs) ==
    IF ovs = <<>> THEN Returned(<<>>)
    ELSE LET layer == ovs[Len(ovs)]
             before == index_overlays_first_wins(SubSeq(ovs, 1, Len(ovs) - 1))
         IN  IF before.raised THEN before
             ELSE IF "layerName" \notin DOMAIN layer THEN KeyError
             ELSE Returned(before.value
                           @@ (layer["layerName"] :>
                                  (IF "results" \in DOMAIN layer
                                   THEN layer["results"] ELSE <<>>)))

\* the dict comprehension, one layer after the other: a later key overwrites
RECURSIVE index_overlays_by_layer(_)
index_overlays_by_layer(ovs) ==
    IF ovs = <<>> THEN Returned(<<>>)
    ELSE LET layer == ovs[Len(ovs)]
             before == index_overlays_by_layer(SubSeq(ovs, 1, Len(ovs) - 1))
         IN  IF before.raised THEN before
             ELSE IF "layerName" \notin DOMAIN layer THEN KeyError
             ELSE Returned((layer["layerName"] :>
                               (IF "results" \in DOMAIN layer
                                THEN layer["results"] ELSE <<>>))
                           @@ before.value)

\* overlay_idx.get(name): the results of the layer, or None
IdxGet(idx, name) ==
    IF name \in DOMAIN idx
    THEN [isNone |-> FALSE, val |-> idx[name]]
    ELSE [isNone |-> TRUE, val |-> <<>>]

\* bool(rows) for rows a list or None
TruthyRows(rows) == ~rows.isNone /\ rows.val # <<>>

----------------------------------------------------------------------------
(* Field extractors *)

\* f"{z.get('Zone')}" of the first record
parse_land_zoning(idx) ==
    LET zoning == IdxGet(idx, L_ZONING)
    IN  IF TruthyRows(zoning)
        THEN PyStr(Get(zoning.val[1], "Zone"))
        ELSE None

parse_regional_plan(idx) ==
    LET rp == IdxGet(idx, L_REGIONAL)
    IN  IF TruthyRows(rp) THEN Get(rp.val[1], "title") ELSE None

parse_lalc(idx) ==
    LET lalc == IdxGet(idx, L_LALC)
    IN  IF TruthyRows(lalc)
        THEN Get(lalc.val[1], "Local Council Name")
        ELSE None

\* CollectEntries without the "if parts:" test
RECURSIVE CollectEntries_keep_empty(_)
CollectEntries_keep_empty(partsOf) ==
    IF partsOf = <<>> THEN {}
    ELSE LET n == Len(partsOf)
         IN  CollectEntries_keep_empty(SubSeq(partsOf, 1, n - 1))
             \cup {Join(SPACE, partsOf[n])}

\* the loops "for r in rows: ... entries.add(...)": partsOf[i] is the parts
\* list of record i, and a record with an empty parts list adds nothing
RECURSIVE CollectEntries(_)
CollectEntries(partsOf) ==
    IF partsOf = <<>> THEN {}
    ELSE LET n == Len(partsOf)
             before == CollectEntries(SubSeq(partsOf, 1, n - 1))
         IN  IF partsOf[n] # <<>>
             THEN before \cup {Join(SPACE, partsOf[n])}
             ELSE before

\* labels.add(r["Type"]) for the records with a truthy Type
sp_parts(r) == IF Truthy(Get(r, "Type")) THEN <<r["Type"]>> ELSE <<>>

parse_special_provisions(idx) ==
    LET sp == IdxGet(idx, L_SP)
    IN  IF ~TruthyRows(sp) THEN None
        ELSE LET labels ==
                     CollectEntries([i \in 1..Len(sp.val) |-> sp_parts(sp.val[i])])
             IN  Join(SP_DELIM, Sorted(labels))

\* ", ".join(p for p in [a, b] if p), parenthesised when not empty
meta_parts(a, b) ==
    LET meta == Join(COMMA, FilterTruthy(<<a, b>>))
    IN  IF meta # <<>> THEN <<LPAREN \o meta \o RPAREN>> ELSE <<>>

height_parts(r) ==
    LET height == Or(Get(r, "Maximum Building Height"), Get(r, "title"))
        units == GetDefault(r, "Units", DEFAULT_UNITS)
        clause == Get(r, "Legislative Clause")
        epi == Get(r, "EPI Name")
    IN  (IF Truthy(height)
         THEN <<Strip(PyStr(height) \o SPACE \o PyStr(units))>>
         ELSE <<>>)
        \o meta_parts(clause, epi)

\* parse_height with a list for entries, joined in the order of the records
parse_height_unsorted(idx) ==
    LET rows == IdxGet(idx, L_HEIGHT)
    IN  IF ~TruthyRows(rows) THEN None
        ELSE LET entries ==
                     SelectSeq([i \in 1..Len(rows.val) |->
                                   Join(SPACE, height_parts(rows.val[i]))],
                               LAMBDA e : e # <<>>)
             IN  IF entries = <<>> THEN None
                 ELSE HEIGHT_PREFIX \o Join(ENTRY_DELIM, entries)

parse_height(idx) ==
    LET rows == IdxGet(idx, L_HEIGHT)
    IN  IF ~TruthyRows(rows) THEN None
        ELSE LET entries ==
                     CollectEntries(
                         [i \in 1..Len(rows.val) |-> height_parts(rows.val[i])])
             IN  IF entries = {} THEN None
                 ELSE HEIGHT_PREFIX \o Join(ENTRY_DELIM, Sorted(entries))

ass_parts(r) ==
    LET ass_class == Or(Get(r, "Class"), Get(r, "title"))
        clause == Get(r, "Legislative Clause")
        epi == Get(r, "EPI Name")
    IN  (IF Truthy(ass_class) THEN <<ass_class>> ELSE <<>>)
        \o meta_parts(clause, epi)

parse_acid_sulfate_soil(idx) ==
    LET rows == IdxGet(idx, L_ASS)
    IN  IF ~TruthyRows(rows) THEN None
        ELSE LET entries ==
                     CollectEntries(
                         [i \in 1..Len(rows.val) |-> ass_parts(rows.val[i])])
             IN  IF entries = {} THEN None
                 ELSE ASS_PREFIX \o Join(ENTRY_DELIM, Sorted(entries))

bushfire_parts(r) ==
    LET category == Or(Get(r, "Category"), Get(r, "title"))
    IN  IF Truthy(category) THEN <<category>> ELSE <<>>

parse_bushfire_prone_land(idx) ==
    LET rows == IdxGet(idx, L_BUSHFIRE)
    IN  IF ~TruthyRows(rows) THEN None
        ELSE LET entries ==
                     CollectEntries(
                         [i \in 1..Len(rows.val) |-> bushfire_parts(rows.val[i])])
             IN  IF entries = {} THEN None
                 ELSE Join(BPA_DELIM, Sorted(entries))

\* the Class-or-title label with (EPI Name, Commenced <date>), shared by the
\* groundwater and the biodiversity extractor
class_commenced_parts(r) ==
    LET class == Or(Get(r, "Class"), Get(r, "title"))
        epi == Get(r, "EPI Name")
        commenced == Get(r, "Commenced Date")
    IN  (IF Truthy(class) THEN <<class>> ELSE <<>>)
        \o meta_parts(epi,
                      IF Truthy(commenced) THEN COMMENCED \o commenced ELSE None)

parse_groundwater_vulnerability(idx) ==
    LET rows == IdxGet(idx, L_GW)
    IN  IF ~TruthyRows(rows) THEN None
        ELSE LET entries ==
                     CollectEntries(
                         [i \in 1..Len(rows.val) |->
                             class_commenced_parts(rows.val[i])])
             IN  IF entries = {} THEN None
                 ELSE GW_PREFIX \o Join(ENTRY_DELIM, Sorted(entries))

parse_terrestrial_biodiversity(idx) ==
    LET rows == IdxGet(idx, L_BIO)
    IN  IF ~TruthyRows(rows) THEN None
        ELSE LET entries ==
                     CollectEntries(
                         [i \in 1..Len(rows.val) |->
                             class_commenced_parts(rows.val[i])])
             IN  IF entries = {} THEN None
                 ELSE BIO_PREFIX \o Join(ENTRY_DELIM, Sorted(entries))

\* parse_heritage_flag testing "rows is not None"
parse_heritage_flag_not_none(idx) ==
    IF ~IdxGet(idx, L_HERITAGE).isNone THEN Y ELSE N

parse_heritage_flag(idx) ==
    IF TruthyRows(IdxGet(idx, L_HERITAGE)) THEN Y ELSE N

parse_crown_land_flag(idx) ==
    IF TruthyRows(IdxGet(idx, L_CROWN)) THEN Y ELSE N

\* the list build_site_dataframe hands to filter(None, ...)
MergeInputs(idx) ==
    <<parse_special_provisions(idx),
      parse_height(idx),
      parse_acid_sulfate_soil(idx),
      parse_groundwater_vulnerability(idx),
      parse_terrestrial_biodiversity(idx)>>

\* the merge without sorted()
MergeSpecialProvisions_unsorted(outs) ==
    Join(MERGE_DELIM, FilterTruthy(outs))

\* "/ ".join(sorted(filter(None, [...])))
MergeSpecialProvisions(outs) ==
    Join(MERGE_DELIM, SortedList(FilterTruthy(outs)))

\* every extractor's output, by the extractor's name
ParseAll(idx) ==
    [parse_regional_plan |-> parse_regional_plan(idx),
     parse_lalc |-> parse_lalc(idx),
     parse_land_zoning |-> parse_land_zoning(idx),
     parse_bushfire_prone_land |-> parse_bushfire_prone_land(idx),
     parse_special_provisions |-> parse_special_provisions(idx),
     parse_height |-> parse_height(idx),
     parse_acid_sulfate_soil |-> parse_acid_sulfate_soil(idx),
     parse_groundwater_vulnerability |-> parse_groundwater_vulnerability(idx),
     parse_terrestrial_biodiversity |-> parse_terrestrial_biodiversity(idx),
     parse_crown_land_flag |-> parse_crown_land_flag(idx),
     parse_heritage_flag |-> parse_heritage_flag(idx)]

\* the columns of the row that come from the overlays
OverlayColumns(idx) ==
    [RegionalPlanBoundary |-> parse_regional_plan(idx),
     LocalAboriginalLandCouncil |-> parse_lalc(idx),
     LandZoning |-> parse_land_zoning(idx),
     BPA |-> parse_bushfire_prone_land(idx),
     SpecialProvisions |-> MergeSpecialProvisions(MergeInputs(idx)),
     CrownLand |-> parse_crown_land_flag(idx),
     Heritage |-> parse_heritage_flag(idx)]

----------------------------------------------------------------------------
(* Inputs of the pure-function specifications *)

\* field values the drawn records carry
V12 == <<49, 50>>                                   \* "12"
V9 == <<57>>                                        \* "9"
VR2 == <<82, 50>>                                   \* "R2"
VB4 == <<66, 52>>                                   \* "B4"
VClause == <<52, 46, 51>>                           \* "4.3"
VEpi == <<76, 69, 80>>                              \* "LEP"
VDate == <<50, 48, 49, 50>>                         \* "2012"

\* every record that carries some of the fields of fv, each with one of the
\* values fv gives it
RecordsOver(fv) ==
    UNION { { r \in [D -> UNION {fv[k] : k \in D}] : \A k \in D : r[k] \in fv[k] }
            : D \in SUBSET DOMAIN fv }

SeqsUpTo(S, n) == UNION { [1..k -> S] : k \in 0..n }

Layers ==
    {L_ZONING, L_REGIONAL, L_LALC, L_SP, L_HEIGHT, L_ASS, L_BUSHFIRE, L_GW,
     L_BIO, L_HERITAGE, L_CROWN}

\* the records drawn for a layer: the fields its extractor reads
LayerPool(L) ==
    CASE L = L_ZONING -> RecordsOver("Zone" :> {VR2, VB4})
      [] L = L_REGIONAL -> RecordsOver("title" :> {V12, V9})
      [] L = L_LALC -> RecordsOver("Local Council Name" :> {V12, V9})
      [] L = L_SP -> RecordsOver("Type" :> {<<>>, V12, V9})
      [] L = L_HEIGHT ->
            RecordsOver("Maximum Building Height" :> {V12} @@ "title" :> {V9}
                        @@ "Units" :> {<<>>} @@ "Legislative Clause" :> {VClause})
      [] L = L_ASS ->
            RecordsOver("Class" :> {V12} @@ "title" :> {V9}
                        @@ "Legislative Clause" :> {VClause}
                        @@ "EPI Name" :> {VEpi})
      [] L = L_BUSHFIRE -> RecordsOver("Category" :> {<<>>, V12} @@ "title" :> {V9})
      [] L = L_GW ->
            RecordsOver("Class" :> {V12} @@ "title" :> {V9}
                        @@ "EPI Name" :> {VEpi} @@ "Commenced Date" :> {VDate})
      [] L = L_BIO ->
            RecordsOver("title" :> {V9} @@ "EPI Name" :> {VEpi}
                        @@ "Commenced Date" :> {VDate}
                        @@ "Legislative Clause" :> {VClause})
      [] OTHER -> RecordsOver("title" :> {V9})

\* an index with one layer, its results any sequence of up to MaxRecs records
SingleLayerIndexes ==
    UNION { { L :> rows : rows \in SeqsUpTo(LayerPool(L), MaxRecs) }
            : L \in Layers }

\* the layers whose extractors feed the "Special Provisions" column
MergeLayers == {L_SP, L_HEIGHT, L_ASS, L_GW, L_BIO}

MergeRows(L) ==
    CASE L = L_SP ->
            { <<("title" :> V9)>>, <<("Type" :> V12)>>,
              <<("Type" :> HEIGHT_PREFIX \o V12 \o SPACE \o DEFAULT_UNITS)>> }
      [] L = L_BIO -> { <<("title" :> V9)>> }
      [] L = L_HEIGHT -> { <<("Maximum Building Height" :> V12)>> }
      [] OTHER -> { <<("Class" :> V12)>> }

\* an index with any of the merge layers, each holding one record
MergeIndexes ==
    UNION { { idx \in [D -> UNION {MergeRows(L) : L \in D}] :
                \A L \in D : idx[L] \in MergeRows(L) }
            : D \in SUBSET MergeLayers }

ExtractInputs == SingleLayerIndexes \cup MergeIndexes

\* the layer blocks drawn for the indexer: with or without layerName and
\* results
BlockRecords == { ("title" :> V9), ("title" :> V12) }

BlockNames == {L_HERITAGE, L_CROWN}

BlockResults == SeqsUpTo(BlockRecords, 1)

BlockPool ==
    { ("layerName" :> n) @@ ("results" :> rs) : n \in BlockNames, rs \in BlockResults }
    \cup { ("layerName" :> n) : n \in BlockNames }
    \cup { ("results" :> <<>>) }

IndexInputs == SeqsUpTo(BlockPool, MaxBlocks)

\* the values the variables of the other specifications keep
Idle == <<>>

----------------------------------------------------------------------------
(* SpecIndex: index_overlays_by_layer applied to a drawn sequence of blocks *)

InitIndex ==
    /\ pc = "input"
    /\ overlays \in IndexInputs
    /\ overlay_idx = Idle
    /\ parsed = Idle /\ row = Idle
    /\ sites_df = <<>> /\ lotid = Idle /\ upstream = Idle /\ built = Idle
    /\ notices = <<>>

IndexOverlays ==
    /\ pc = "input"
    /\ LET res == index_overlays_by_layer(overlays)
       IN  /\ pc' = IF res.raised THEN "raised" ELSE "indexed"
           /\ overlay_idx' = res.value
    /\ UNCHANGED <<overlays, parsed, row, sites_df, lotid, upstream, built,
                   notices>>

NextIndex == IndexOverlays

SpecIndex == InitIndex /\ [][NextIndex]_vars

----------------------------------------------------------------------------
(* SpecExtract: the extractors and the merge of build_site_dataframe applied *)
(* to a drawn overlay index                                                  *)

InitExtract ==
    /\ pc = "input"
    /\ overlay_idx \in ExtractInputs
    /\ overlays = Idle
    /\ parsed = Idle /\ row = Idle
    /\ sites_df = <<>> /\ lotid = Idle /\ upstream = Idle /\ built = Idle
    /\ notices = <<>>

AssembleRow ==
    /\ pc = "input"
    /\ parsed' = ParseAll(overlay_idx)
    /\ row' = OverlayColumns(overlay_idx)
    /\ pc' = "assembled"
    /\ UNCHANGED <<overlays, overlay_idx, sites_df, lotid, upstream, built,
                   notices>>

NextExtract == AssembleRow

SpecExtract == InitExtract /\ [][NextExtract]_vars

----------------------------------------------------------------------------
(* Row assembler *)

\* the API calls of build_site_dataframe, in the order it makes them
Calls == <<"lot", "property", "boundary", "layerintersect", "address", "council">>

\* what the API answers a call: "error" is a failed request (timeout,
\* connection, non-2xx status), "empty" an empty result, "match" a result;
\* a lot result may lack cadId and a boundary result geometry
Answers(call) ==
    CASE call = "lot" -> {"error", "empty", "no_cadId", "match"}
      [] call = "boundary" -> {"error", "empty", "no_geometry", "match"}
      [] call = "layerintersect" -> {"error", "match"}
      [] OTHER -> {"error", "empty", "match"}

VAddress == <<49, 32, 65, 32, 83, 116>>             \* "1 A St"
VCouncil == <<82, 121, 100, 101>>                   \* "Ryde"

\* the layer blocks a layerintersect result holds
OverlayResponses ==
    { <<>>,
      << ("layerName" :> L_ZONING) @@ ("results" :> <<("Zone" :> VR2)>>),
         ("layerName" :> L_HERITAGE) @@ ("results" :> <<("title" :> V9)>>) >>,
      << ("results" :> <<("title" :> V9)>>) >> }

\* the exception a call's answer raises in build_site_dataframe, "" if none
Raises(call, answer) ==
    CASE answer = "error" -> "HTTPError"
      [] call = "lot" /\ answer = "empty" -> "IndexError"
      [] call = "lot" /\ answer = "no_cadId" -> "KeyError"
      [] call = "boundary" /\ answer = "empty" -> "IndexError"
      [] call = "boundary" /\ answer = "no_geometry" -> "KeyError"
      [] call = "council" /\ answer = "empty" -> "IndexError"
      [] OTHER -> ""

NotBuilt ==
    [called |-> FALSE, raised |-> FALSE, error |-> "", at |-> "", value |-> <<>>]

Raised(e, at) ==
    [called |-> TRUE, raised |-> TRUE, error |-> e, at |-> at, value |-> <<>>]

Built(r) ==
    [called |-> TRUE, raised |-> FALSE, error |-> "", at |-> "", value |-> r]

\* the row dict: the columns of the lookups and those of the overlays
Row(l, address, council, idx) ==
    LET cols == OverlayColumns(idx)
    IN  [Address |-> address,
         SiteArea |-> <<>>,
         LotIdentifier |-> l,
         Council |-> council,
         RegionalPlanBoundary |-> cols.RegionalPlanBoundary,
         LocalAboriginalLandCouncil |-> cols.LocalAboriginalLandCouncil,
         LandZoning |-> cols.LandZoning,
         BPA |-> cols.BPA,
         SpecialProvisions |-> cols.SpecialProvisions,
         CrownLand |-> cols.CrownLand,
         Heritage |-> cols.Heritage]

\* the lookups one after the other; up.answer gives each call's answer and
\* up.overlays the layerintersect result
build_site_dataframe(l, up) ==
    LET a == up.answer
        idx == index_overlays_by_layer(up.overlays)
    IN  IF Raises("lot", a["lot"]) # ""
            THEN Raised(Raises("lot", a["lot"]), "lot")
        ELSE IF Raises("property", a["property"]) # ""
            THEN Raised(Raises("property", a["property"]), "property")
        ELSE IF Raises("boundary", a["boundary"]) # ""
            THEN Raised(Raises("boundary", a["boundary"]), "boundary")
        ELSE IF Raises("layerintersect", a["layerintersect"]) # ""
            THEN Raised(Raises("layerintersect", a["layerintersect"]), "layerintersect")
        ELSE IF idx.raised
            THEN Raised(idx.error, "index_overlays_by_layer")
        ELSE IF Raises("address", a["address"]) # ""
            THEN Raised(Raises("address", a["address"]), "address")
        ELSE IF Raises("council", a["council"]) # ""
            THEN Raised(Raises("council", a["council"]), "council")
        ELSE Built(Row(l,
                       IF a["address"] = "match" THEN VAddress ELSE <<>>,
                       VCouncil,
                       idx.value))

\* the calls build_site_dataframe gets to make under up: none after the
\* first exception
Made(up) ==
    LET at == build_site_dataframe(<<>>, up).at
        pos(c) == CHOOSE i \in 1..Len(Calls) : Calls[i] = c
        last == CASE at = "" -> Len(Calls)
                  [] at = "index_overlays_by_layer" -> pos("layerintersect")
                  [] OTHER -> pos(at)
    IN  [answer |-> [c \in Range(Calls) |->
                        IF pos(c) <= last THEN up.answer[c] ELSE "not_called"],
         overlays |-> IF pos("layerintersect") <= last
                         /\ up.answer["layerintersect"] = "match"
                      THEN up.overlays ELSE <<>>]

\* every course the lookups of one submission can take
Upstreams ==
    { Made([answer |-> a, overlays |-> o]) :
        a \in { f \in [Range(Calls) -> {"error", "empty", "no_cadId",
                                         "no_geometry", "match"}] :
                  \A c \in Range(Calls) : f[c] \in Answers(c) },
        o \in OverlayResponses }

NoCalls == [answer |-> [c \in Range(Calls) |-> "not_called"], overlays |-> <<>>]

----------------------------------------------------------------------------
(* Submission handler *)

\* the texts drawn for the form field: "", " ", "A", "B"
LotIds == { <<>>, <<32>>, <<65>>, <<66>> }

Notice(kind, l) == [kind |-> kind, lot |-> l]

\* lotid in sites_df["Lot Identifier"].values, on the wrong column
InTable_wrong_column(l, df) == \E i \in 1..Len(df) : df[i].Address = l

\* lotid in st.session_state.sites_df["Lot Identifier"].values
InTable(l, df) == \E i \in 1..Len(df) : df[i].LotIdentifier = l

\* the table after a submission whose except branch adds a row for the lot
TableAfter_row_on_failure(df, l, b) ==
    IF b.raised THEN Append(df, Row(l, <<>>, <<>>, <<>>))
    ELSE IF InTable(l, df) THEN df
    ELSE Append(df, b.value)

\* sites_df after the try block of a submission whose build ended as b
TableAfter(df, l, b) ==
    IF b.raised THEN df
    ELSE IF InTable(l, df) THEN df
    ELSE Append(df, b.value)

\* the notices of the try block, in the order they are emitted
NoticesAfter(df, l, b) ==
    IF b.raised THEN <<Notice("error", l), Notice("exception", l)>>
    ELSE (IF InTable(l, df) THEN <<Notice("info", l)>> ELSE <<>>)
         \o <<Notice("success", l)>>

Init ==
    /\ sites_df = <<>>
    /\ lotid = <<>>
    /\ upstream = NoCalls
    /\ built = NotBuilt
    /\ notices = <<>>
    /\ overlays = Idle /\ overlay_idx = Idle /\ parsed = Idle /\ row = Idle
    /\ pc = "ui"

\* a run of the script with the form submitted
Submit ==
    \E l \in LotIds :
        /\ lotid' = l
        /\ IF Strip(l) = <<>>
           THEN /\ notices' = <<Notice("warning", l)>>
                /\ UNCHANGED sites_df
                /\ upstream' = NoCalls
                /\ built' = NotBuilt
           ELSE \E up \in Upstreams :
                    LET b == build_site_dataframe(l, up)
                    IN  /\ upstream' = up
                        /\ built' = b
                        /\ sites_df' = TableAfter(sites_df, l, b)
                        /\ notices' = NoticesAfter(sites_df, l, b)
        /\ UNCHANGED <<overlays, overlay_idx, parsed, row, pc>>

\* a run of the script without a submission: the table is shown again
Rerun ==
    /\ notices' = <<>>
    /\ lotid' = <<>>
    /\ upstream' = NoCalls
    /\ built' = NotBuilt
    /\ UNCHANGED <<sites_df, overlays, overlay_idx, parsed, row, pc>>

Next == Submit \/ Rerun

Spec == Init /\ [][Next]_vars

----------------------------------------------------------------------------
(* Properties of the submission handler (Spec) *)

UniqueLots ==
    \A i, j \in 1..Len(sites_df) :
        sites_df[i].LotIdentifier = sites_df[j].LotIdentifier => i = j

\* C1: no two rows of the table have the same Lot Identifier, and a
\* submission of an identifier that is in the table leaves the table as it
\* was
C1_UniqueFirstWins ==
    /\ []UniqueLots
    /\ [][(\E i \in 1..Len(sites_df) : sites_df[i].LotIdentifier = lotid')
             => sites_df' = sites_df]_vars

\* a table of two rows after a submission of an identifier it already held,
\* whose row was built and not added
C1_Witness ==
    /\ Len(sites_df) = 2
    /\ built.called /\ ~built.raised
    /\ \E i \in 1..Len(sites_df) :
          /\ sites_df[i].LotIdentifier = lotid
          /\ sites_df[i] # built.value
    /\ Notice("info", lotid) \in Range(notices)

\* C2: a submission whose row build raises leaves the table as it was and
\* reports the error with the identifier
C2_FailureLeavesTable ==
    [][built'.raised =>
          /\ sites_df' = sites_df
          /\ Notice("error", lotid') \in Range(notices')]_vars

\* the indexing of the overlays failed for a submission to a table with rows
C2_Witness ==
    /\ built.raised
    /\ built.at = "index_overlays_by_layer"
    /\ sites_df # <<>>
    /\ Notice("error", lotid) \in Range(notices)

LookupCalls == {"lot", "property", "boundary", "address", "council"}

\* C3 as stated: the build raises when a lookup (lot, property, boundary,
\* address, council) has no match or the lot lacks cadId, so a row is built
\* only when every lookup matched
C3_Original ==
    built.called =>
        /\ (\E c \in LookupCalls : upstream.answer[c] \in {"empty", "no_cadId"})
              => built.raised
        /\ ~built.raised => \A c \in LookupCalls : upstream.answer[c] = "match"

\* C10 as stated: a run emits the success notice exactly when it added a
\* row to the table
C10_Original ==
    [][Notice("success", lotid') \in Range(notices') <=> sites_df' # sites_df]_vars

----------------------------------------------------------------------------
(* Properties of the indexer (SpecIndex) *)

AllNamed == \A i \in 1..Len(overlays) : "layerName" \in DOMAIN overlays[i]

\* the position of the last block named n
LastNamed(n) ==
    CHOOSE i \in 1..Len(overlays) :
        /\ overlays[i]["layerName"] = n
        /\ \A j \in (i + 1)..Len(overlays) : overlays[j]["layerName"] # n

\* C6: when every block carries a layerName, the keys of the index are the
\* distinct layerName values and each key maps to the results of the last
\* block of that name (the empty sequence when that block has no results);
\* a block without layerName makes the indexing fail
C6_IndexKeysAndLastWriteWins ==
    pc # "input" =>
        /\ AllNamed <=> pc = "indexed"
        /\ ~AllNamed <=> pc = "raised"
        /\ AllNamed =>
              /\ DOMAIN overlay_idx =
                    { overlays[i]["layerName"] : i \in 1..Len(overlays) }
              /\ \A n \in DOMAIN overlay_idx :
                    LET last == overlays[LastNamed(n)]
                    IN  overlay_idx[n] =
                            IF "results" \in DOMAIN last
                            THEN last["results"] ELSE <<>>

\* two blocks of one name with different results have been indexed, the
\* later one without a results key
C6_Witness ==
    /\ pc = "indexed"
    /\ \E i, j \in 1..Len(overlays) :
          /\ i < j
          /\ overlays[i]["layerName"] = overlays[j]["layerName"]
          /\ "results" \in DOMAIN overlays[i]
          /\ overlays[i]["results"] # <<>>
          /\ "results" \notin DOMAIN overlays[j]
          /\ overlay_idx[overlays[j]["layerName"]] = <<>>

----------------------------------------------------------------------------
(* Properties of the extractors (SpecExtract) *)

Apply(e, idx) ==
    CASE e = "parse_regional_plan" -> parse_regional_plan(idx)
      [] e = "parse_lalc" -> parse_lalc(idx)
      [] e = "parse_land_zoning" -> parse_land_zoning(idx)
      [] e = "parse_bushfire_prone_land" -> parse_bushfire_prone_land(idx)
      [] e = "parse_special_provisions" -> parse_special_provisions(idx)
      [] e = "parse_height" -> parse_height(idx)
      [] e = "parse_acid_sulfate_soil" -> parse_acid_sulfate_soil(idx)
      [] e = "parse_groundwater_vulnerability" ->
            parse_groundwater_vulnerability(idx)
      [] e = "parse_terrestrial_biodiversity" ->
            parse_terrestrial_biodiversity(idx)
      [] e = "parse_crown_land_flag" -> parse_crown_land_flag(idx)
      [] e = "parse_heritage_flag" -> parse_heritage_flag(idx)

TargetLayer(e) ==
    CASE e = "parse_regional_plan" -> L_REGIONAL
      [] e = "parse_lalc" -> L_LALC
      [] e = "parse_land_zoning" -> L_ZONING
      [] e = "parse_bushfire_prone_land" -> L_BUSHFIRE
      [] e = "parse_special_provisions" -> L_SP
      [] e = "parse_height" -> L_HEIGHT
      [] e = "parse_acid_sulfate_soil" -> L_ASS
      [] e = "parse_groundwater_vulnerability" -> L_GW
      [] e = "parse_terrestrial_biodiversity" -> L_BIO
      [] e = "parse_crown_land_flag" -> L_CROWN
      [] e = "parse_heritage_flag" -> L_HERITAGE

FlagExtractors == {"parse_heritage_flag", "parse_crown_land_flag"}

PrimaryExtractors == {"parse_land_zoning", "parse_regional_plan", "parse_lalc"}

CompositeExtractors ==
    {"parse_height", "parse_acid_sulfate_soil",
     "parse_groundwater_vulnerability", "parse_terrestrial_biodiversity"}

AggregationExtractors ==
    CompositeExtractors \cup {"parse_special_provisions", "parse_bushfire_prone_land"}

Extractors == FlagExtractors \cup PrimaryExtractors \cup AggregationExtractors

\* overlay_idx with the results of layer L replaced
WithRows(L, rows) == (L :> rows) @@ overlay_idx

Reorderings(rows) ==
    { [i \in 1..Len(rows) |-> rows[p[i]]] :
        p \in { q \in [1..Len(rows) -> 1..Len(rows)] :
                  \A i, j \in 1..Len(rows) : q[i] = q[j] => i = j } }

Duplications(rows) == { Append(rows, rows[i]) : i \in 1..Len(rows) }

\* C4: an aggregation extractor gives the same string on every permutation
\* of its layer's records and with a copy of one of the records appended
C4_OrderAndDuplicateInsensitive ==
    pc = "assembled" =>
        \A e \in AggregationExtractors :
            TargetLayer(e) \in DOMAIN overlay_idx =>
                \A rows \in Reorderings(overlay_idx[TargetLayer(e)])
                            \cup Duplications(overlay_idx[TargetLayer(e)]) :
                    Apply(e, WithRows(TargetLayer(e), rows)) = parsed[e]

\* two height records with different labels, the greater one first, were
\* aggregated
C4_Witness ==
    /\ pc = "assembled"
    /\ L_HEIGHT \in DOMAIN overlay_idx
    /\ Len(overlay_idx[L_HEIGHT]) = 2
    /\ LET a == height_parts(overlay_idx[L_HEIGHT][1])
           b == height_parts(overlay_idx[L_HEIGHT][2])
       IN  /\ a # <<>> /\ b # <<>>
           /\ LexLess(Join(SPACE, b), Join(SPACE, a))
    /\ parsed["parse_height"] # None

\* C5: a layer that is missing from the index and a layer mapped to the
\* empty sequence both give None from a value extractor and "N" from a flag
\* extractor, and a flag extractor gives "Y" or "N" on every index
C5_EmptyLayerSameAsMissing ==
    pc = "assembled" =>
        /\ \A e \in Extractors :
              (\/ TargetLayer(e) \notin DOMAIN overlay_idx
               \/ overlay_idx[TargetLayer(e)] = <<>>)
                  => parsed[e] = IF e \in FlagExtractors THEN N ELSE None
        /\ \A e \in FlagExtractors : parsed[e] \in {Y, N}

\* the heritage layer is in the index with no records
C5_Witness ==
    /\ pc = "assembled"
    /\ L_HERITAGE \in DOMAIN overlay_idx
    /\ overlay_idx[L_HERITAGE] = <<>>
    /\ parsed["parse_heritage_flag"] = N
    /\ parsed["parse_land_zoning"] = None

PrimaryField(e) ==
    CASE e = "parse_height" -> "Maximum Building Height"
      [] e = "parse_land_zoning" -> "Zone"
      [] e = "parse_regional_plan" -> "title"
      [] e = "parse_lalc" -> "Local Council Name"
      [] OTHER -> "Class"

HasPrimaryOrTitle(e, r) ==
    Truthy(Get(r, PrimaryField(e))) \/ Truthy(Get(r, "title"))

\* the secondary fields a composite-label extractor puts in parentheses
MetaFields(e) ==
    IF e \in {"parse_height", "parse_acid_sulfate_soil"}
    THEN {"Legislative Clause", "EPI Name"}
    ELSE {"EPI Name", "Commenced Date"}

HasMetadata(e, r) == \E k \in MetaFields(e) : Truthy(Get(r, k))

\* the records of the layer of e that satisfy Keep
KeptRows(e, Keep(_)) == SelectSeq(overlay_idx[TargetLayer(e)], Keep)

\* C8 as stated: the output of a composite-label extractor is that of the
\* records with a primary value or a title, the others adding nothing
\* whatever metadata they carry, and None when there is no such record
C8_Original ==
    pc = "assembled" =>
        \A e \in CompositeExtractors :
            TargetLayer(e) \in DOMAIN overlay_idx =>
                /\ parsed[e] =
                      Apply(e, WithRows(TargetLayer(e),
                                        KeptRows(e, LAMBDA r : HasPrimaryOrTitle(e, r))))
                /\ (\A r \in Range(overlay_idx[TargetLayer(e)]) :
                       ~HasPrimaryOrTitle(e, r))
                      => parsed[e] = None

\* C8 amended: the output of a composite-label extractor is that of the
\* records with a primary value, a title or one of the metadata fields the
\* extractor reads; a record with none of them adds nothing, and the output
\* is None exactly when the layer has no other record
C8_BlankRecordAddsNothing ==
    pc = "assembled" =>
        \A e \in CompositeExtractors :
            TargetLayer(e) \in DOMAIN overlay_idx =>
                /\ parsed[e] =
                      Apply(e, WithRows(TargetLayer(e),
                                        KeptRows(e, LAMBDA r :
                                            HasPrimaryOrTitle(e, r) \/ HasMetadata(e, r))))
                /\ parsed[e] = None <=>
                      \A r \in Range(overlay_idx[TargetLayer(e)]) :
                          ~HasPrimaryOrTitle(e, r) /\ ~HasMetadata(e, r)

\* a biodiversity layer of a record with nothing the extractor reads (it
\* has only a Legislative Clause) and a record with only metadata, which
\* gives the output
C8_Witness ==
    /\ pc = "assembled"
    /\ L_BIO \in DOMAIN overlay_idx
    /\ \E i, j \in 1..Len(overlay_idx[L_BIO]) :
          LET r == overlay_idx[L_BIO][i]
              t == overlay_idx[L_BIO][j]
          IN  /\ DOMAIN r = {"Legislative Clause"}
              /\ ~HasPrimaryOrTitle("parse_terrestrial_biodiversity", t)
              /\ HasMetadata("parse_terrestrial_biodiversity", t)
    /\ parsed["parse_terrestrial_biodiversity"] # None

\* C9 as stated: a primary-value extractor returns the field of the first
\* record of its layer, None when that record lacks the field
C9_Original ==
    pc = "assembled" =>
        \A e \in PrimaryExtractors :
            (/\ TargetLayer(e) \in DOMAIN overlay_idx
             /\ overlay_idx[TargetLayer(e)] # <<>>)
                => parsed[e] = Get(overlay_idx[TargetLayer(e)][1], PrimaryField(e))

\* the outputs of the five merged extractors, in the order of the source
MergedOutputs ==
    <<parsed["parse_special_provisions"], parsed["parse_height"],
      parsed["parse_acid_sulfate_soil"],
      parsed["parse_groundwater_vulnerability"],
      parsed["parse_terrestrial_biodiversity"]>>

\* s is the strings of list put in ascending order and joined with delim
IsSortedJoin(s, list, delim) ==
    \E sorted \in Reorderings(list) :
        /\ \A i \in 1..(Len(sorted) - 1) : ~LexLess(sorted[i + 1], sorted[i])
        /\ Join(delim, sorted) = s

\* C7 as stated: the column is the non-null outputs of the five extractors
\* in ascending order, joined with a delimiter the extractors join their
\* labels with
C7_Original ==
    pc = "assembled" =>
        LET nonNull == SelectSeq(MergedOutputs, LAMBDA v : v # None)
        IN  \/ IsSortedJoin(row.SpecialProvisions, nonNull, SP_DELIM)
            \/ IsSortedJoin(row.SpecialProvisions, nonNull, ENTRY_DELIM)

\* C7 amended: the column is the outputs of the five extractors that are
\* neither None nor the empty string, in ascending order, joined with "/ ";
\* it is the empty string when there is none
C7_MergeSortedSlashJoined ==
    pc = "assembled" =>
        LET kept == SelectSeq(MergedOutputs, Truthy)
        IN  /\ IsSortedJoin(row.SpecialProvisions, kept, MERGE_DELIM)
            /\ kept = <<>> => row.SpecialProvisions = <<>>

\* the height and the soils extractor both contribute, the special
\* provisions extractor returned the empty string, and the soils output,
\* later in the list, comes first in the column
C7_Witness ==
    /\ pc = "assembled"
    /\ parsed["parse_height"] # None
    /\ parsed["parse_acid_sulfate_soil"] # None
    /\ parsed["parse_special_provisions"] = <<>>
    /\ row.SpecialProvisions =
          parsed["parse_acid_sulfate_soil"] \o MERGE_DELIM \o parsed["parse_height"]

=============================================================================
